---- MODULE Spec2Model ----
(***************************************************************************)
(* A model of the obsd.spread view (SpreadView, main.tsx): the preview     *)
(* pipeline, the row packer, the change detector, the render scheduler and *)
(* the life cycle of one view instance.                                    *)
(*                                                                         *)
(* JavaScript strings are sequences of one-character strings, so that      *)
(* formatting, splitting and the regular-expression rewrites are computed  *)
(* and not assumed.                                                        *)
(***************************************************************************)
EXTENDS Integers, Sequences, FiniteSets, Bags, TLC

NULL == "NULL"

----------------------------------------------------------------------------
(* Strings                                                                 *)

NL == "\n"

\* the characters matched by \s (and removed by String.prototype.trim)
WhiteSpace == {" ", "\t", "\n", "\r"}

\* the grave accent character (it cannot be written in a string literal here)
GraveAccent == "GRAVE"

Digits == <<"0", "1", "2", "3", "4", "5", "6", "7", "8", "9">>

DigitChars == {Digits[i] : i \in 1..10}

UpperCase == <<"A", "B", "C", "D", "E", "F", "G", "H", "I", "J", "K", "L", "M",
               "N", "O", "P", "Q", "R", "S", "T", "U", "V", "W", "X", "Y", "Z">>

LowerCase == <<"a", "b", "c", "d", "e", "f", "g", "h", "i", "j", "k", "l", "m",
               "n", "o", "p", "q", "r", "s", "t", "u", "v", "w", "x", "y", "z">>

LowerChar(c) ==
    IF \E i \in 1..26 : UpperCase[i] = c
    THEN LowerCase[CHOOSE i \in 1..26 : UpperCase[i] = c]
    ELSE c

\* String.prototype.toLowerCase
toLowerCase(s) == [i \in 1..Len(s) |-> LowerChar(s[i])]

\* the decimal numeral of a natural number, as a template literal prints it
RECURSIVE ToDecimal(_)
ToDecimal(n) ==
    IF n < 10 THEN <<Digits[n + 1]>>
    ELSE ToDecimal(n \div 10) \o <<Digits[(n % 10) + 1]>>

\* s[i..j], empty when j < i
Slice(s, i, j) == IF j < i THEN <<>> ELSE SubSeq(s, i, j)

\* pat occurs in s at position i
StartsAt(s, i, pat) ==
    /\ i >= 1
    /\ i + Len(pat) - 1 <= Len(s)
    /\ \A k \in 1..Len(pat) : s[i + k - 1] = pat[k]

\* the first position >= i of s whose character is not in cls (Len(s)+1 if none)
RECURSIVE SkipWhile(_, _, _)
SkipWhile(s, i, cls) ==
    IF i <= Len(s) /\ s[i] \in cls THEN SkipWhile(s, i + 1, cls) ELSE i

\* the first position >= i of s whose character is in cls (Len(s)+1 if none)
RECURSIVE SkipUntil(_, _, _)
SkipUntil(s, i, cls) ==
    IF i <= Len(s) /\ s[i] \notin cls THEN SkipUntil(s, i + 1, cls) ELSE i

\* String.prototype.split on a one-character separator
RECURSIVE SplitFrom(_, _, _)
SplitFrom(s, i, sep) ==
    LET j == SkipUntil(s, i, {sep})
    IN  IF j > Len(s) THEN <<Slice(s, i, Len(s))>>
        ELSE <<Slice(s, i, j - 1)>> \o SplitFrom(s, j + 1, sep)

split(s, sep) == SplitFrom(s, 1, sep)

\* the last position <= j of s whose character is not in cls (0 if none)
RECURSIVE SkipBackWhile(_, _, _)
SkipBackWhile(s, j, cls) ==
    IF j >= 1 /\ s[j] \in cls THEN SkipBackWhile(s, j - 1, cls) ELSE j

\* String.prototype.trim
trim(s) ==
    LET i == SkipWhile(s, 1, WhiteSpace)
        j == SkipBackWhile(s, Len(s), WhiteSpace)
    IN  Slice(s, i, j)

\* Array.prototype.join on a one-character separator
RECURSIVE join(_, _)
join(lines, sep) ==
    IF Len(lines) = 0 THEN <<>>
    ELSE IF Len(lines) = 1 THEN lines[1]
    ELSE lines[1] \o <<sep>> \o join(Tail(lines), sep)

\* Array.prototype.filter
RECURSIVE FilterNonEmpty(_)
FilterNonEmpty(lines) ==
    IF Len(lines) = 0 THEN <<>>
    ELSE IF Len(lines[1]) > 0 THEN <<lines[1]>> \o FilterNonEmpty(Tail(lines))
    ELSE FilterNonEmpty(Tail(lines))

\* Array.prototype.slice(0, n)
slice0(xs, n) == Slice(xs, 1, IF n < Len(xs) THEN n ELSE Len(xs))

----------------------------------------------------------------------------
(* Regular-expression rewrites (String.prototype.replace)                  *)

\* the result of trying a pattern at one position: the position after the
\* match and the replacement text
NoMatch == [ok |-> FALSE, end |-> 0, repl |-> <<>>]

Match(e, r) == [ok |-> TRUE, end |-> e, repl |-> r]

LineTerminators == {"\n", "\r"}

\* ^ under the m flag
AtLineStart(s, i) == i = 1 \/ s[i - 1] \in LineTerminators

\* $ under the m flag
AtLineEnd(s, i) == i > Len(s) \/ s[i] \in LineTerminators

\* /^#{1,6}\s+/gm
MatchHeading(s, i) ==
    LET h == SkipWhile(s, i, {"#"})
        e == SkipWhile(s, h, WhiteSpace)
    IN  IF AtLineStart(s, i) /\ h - i >= 1 /\ h - i <= 6 /\ e > h
        THEN Match(e, <<>>) ELSE NoMatch

\* /open([^x]+)close/g with replacement $1, where close begins with x
MatchWrapped(s, i, open, x, close) ==
    LET b == i + Len(open)
        e == SkipUntil(s, b, {x})
    IN  IF StartsAt(s, i, open) /\ e > b /\ StartsAt(s, e, close)
        THEN Match(e + Len(close), Slice(s, b, e - 1)) ELSE NoMatch

\* /\[([^\]]+)\]\([^)]+\)/g with replacement $1
MatchLink(s, i) ==
    LET b == i + 1
        e == SkipUntil(s, b, {"]"})
        c == e + 2
        f == SkipUntil(s, c, {")"})
    IN  IF StartsAt(s, i, <<"[">>) /\ e > b /\ StartsAt(s, e, <<"]", "(">>)
           /\ f > c /\ f <= Len(s)
        THEN Match(f + 1, Slice(s, b, e - 1)) ELSE NoMatch

\* /!\[([^\]]*)\]\([^)]+\)/g with replacement ""
MatchImage(s, i) ==
    LET b == i + 2
        e == SkipUntil(s, b, {"]"})
        c == e + 2
        f == SkipUntil(s, c, {")"})
    IN  IF StartsAt(s, i, <<"!", "[">>) /\ StartsAt(s, e, <<"]", "(">>)
           /\ f > c /\ f <= Len(s)
        THEN Match(f + 1, <<>>) ELSE NoMatch

\* /\[\[([^\]|]+)\|?([^\]]*)\]\]/g with replacement alias || link
MatchWikiLink(s, i) ==
    LET b == i + 2
        l == SkipUntil(s, b, {"]", "|"})
        a == IF l <= Len(s) /\ s[l] = "|" THEN l + 1 ELSE l
        e == SkipUntil(s, a, {"]"})
        link == Slice(s, b, l - 1)
        alias == Slice(s, a, e - 1)
    IN  IF StartsAt(s, i, <<"[", "[">>) /\ l > b /\ StartsAt(s, e, <<"]", "]">>)
        THEN Match(e + 2, IF Len(alias) > 0 THEN alias ELSE link) ELSE NoMatch

\* /^>\s?/gm
MatchQuote(s, i) ==
    IF AtLineStart(s, i) /\ StartsAt(s, i, <<">">>)
    THEN Match(IF i + 1 <= Len(s) /\ s[i + 1] \in WhiteSpace THEN i + 2 ELSE i + 1, <<>>)
    ELSE NoMatch

\* /^[-*+]\s+/gm
MatchBullet(s, i) ==
    LET e == SkipWhile(s, i + 1, WhiteSpace)
    IN  IF AtLineStart(s, i) /\ i <= Len(s) /\ s[i] \in {"-", "*", "+"} /\ e > i + 1
        THEN Match(e, <<>>) ELSE NoMatch

\* /^\d+\.\s+/gm
MatchOrdered(s, i) ==
    LET d == SkipWhile(s, i, DigitChars)
        e == SkipWhile(s, d + 1, WhiteSpace)
    IN  IF AtLineStart(s, i) /\ d > i /\ StartsAt(s, d, <<".">>) /\ e > d + 1
        THEN Match(e, <<>>) ELSE NoMatch

\* one repetition of (\s*[-*_]) from position p: the position after it, or 0
RuleRep(s, p) ==
    LET q == SkipWhile(s, p, WhiteSpace)
    IN  IF q <= Len(s) /\ s[q] \in {"-", "*", "_"} THEN q + 1 ELSE 0

\* the positions after 1, 2, ... greedy repetitions of (\s*[-*_]) from p
RECURSIVE RuleReps(_, _)
RuleReps(s, p) ==
    LET q == RuleRep(s, p)
    IN  IF q = 0 THEN <<>> ELSE <<q>> \o RuleReps(s, q)

\* \s*$ from position p, greedy with backtracking: the position after the
\* longest white-space run that ends at a line end, or 0
RuleTail(s, p) ==
    LET w == SkipWhile(s, p, WhiteSpace)
        ends == {q \in p..w : AtLineEnd(s, q)}
    IN  IF ends = {} THEN 0 ELSE CHOOSE q \in ends : \A r \in ends : r <= q

\* /^(\s*[-*_]){3,}\s*$/gm with replacement "": the most repetitions first
MatchRule(s, i) ==
    LET reps == RuleReps(s, i)
        good == {k \in 3..Len(reps) : RuleTail(s, reps[k]) # 0}
        best == CHOOSE k \in good : \A j \in good : j <= k
    IN  IF AtLineStart(s, i) /\ good # {}
        THEN Match(RuleTail(s, reps[best]), <<>>) ELSE NoMatch

\* /\n{3,}/g with replacement "\n\n"
MatchBlankLines(s, i) ==
    LET e == SkipWhile(s, i, {NL})
    IN  IF e - i >= 3 THEN Match(e, <<NL, NL>>) ELSE NoMatch

MatchAt(rx, s, i) ==
    CASE rx = "heading"    -> MatchHeading(s, i)
      [] rx = "bold"       -> MatchWrapped(s, i, <<"*", "*">>, "*", <<"*", "*">>)
      [] rx = "italic"     -> MatchWrapped(s, i, <<"*">>, "*", <<"*">>)
      [] rx = "bold_"      -> MatchWrapped(s, i, <<"_", "_">>, "_", <<"_", "_">>)
      [] rx = "italic_"    -> MatchWrapped(s, i, <<"_">>, "_", <<"_">>)
      [] rx = "strike"     -> MatchWrapped(s, i, <<"~", "~">>, "~", <<"~", "~">>)
      [] rx = "code"       -> MatchWrapped(s, i, <<GraveAccent>>, GraveAccent, <<GraveAccent>>)
      [] rx = "link"       -> MatchLink(s, i)
      [] rx = "image"      -> MatchImage(s, i)
      [] rx = "wikilink"   -> MatchWikiLink(s, i)
      [] rx = "quote"      -> MatchQuote(s, i)
      [] rx = "bullet"     -> MatchBullet(s, i)
      [] rx = "ordered"    -> MatchOrdered(s, i)
      [] rx = "rule"       -> MatchRule(s, i)
      [] rx = "blanklines" -> MatchBlankLines(s, i)

\* replace with the g flag: leftmost match first, then on from its end
RECURSIVE ReplaceFrom(_, _, _)
ReplaceFrom(rx, s, i) ==
    IF i > Len(s) THEN <<>>
    ELSE LET m == MatchAt(rx, s, i)
         IN  IF m.ok THEN m.repl \o ReplaceFrom(rx, s, m.end)
             ELSE <<s[i]>> \o ReplaceFrom(rx, s, i + 1)

replaceAll(s, rx) == ReplaceFrom(rx, s, 1)

\* the replacements of stripMarkdown, in the order of the call chain
StripOrder == <<"heading", "bold", "italic", "bold_", "italic_", "strike", "code",
                "link", "image", "wikilink", "quote", "bullet", "ordered", "rule",
                "blanklines">>

RECURSIVE ApplyRewrites(_, _, _)
ApplyRewrites(s, order, k) ==
    IF k > Len(order) THEN s
    ELSE ApplyRewrites(replaceAll(s, order[k]), order, k + 1)

stripMarkdown(text) == ApplyRewrites(text, StripOrder, 1)

\* the position of the first "\n---" at or after i, or 0
RECURSIVE FindClosingFence(_, _)
FindClosingFence(s, i) ==
    IF i > Len(s) THEN 0
    ELSE IF StartsAt(s, i, <<NL, "-", "-", "-">>) THEN i
    ELSE FindClosingFence(s, i + 1)

\* content.replace(FRONTMATTER_REGEX, ""), FRONTMATTER_REGEX = /^---\n[\s\S]*?\n---\n?/
FRONTMATTER_REGEX(content) ==
    LET p == FindClosingFence(content, 5)
        e == IF p + 4 <= Len(content) /\ content[p + 4] = NL THEN p + 5 ELSE p + 4
    IN  IF StartsAt(content, 1, <<"-", "-", "-", NL>>) /\ p # 0
        THEN Slice(content, e, Len(content)) ELSE content

----------------------------------------------------------------------------
(* Constants of main.tsx                                                   *)

BINARY_EXTENSIONS == {
    <<"p", "n", "g">>, <<"j", "p", "g">>, <<"j", "p", "e", "g">>, <<"g", "i", "f">>, <<"w", "e", "b", "p">>, <<"s", "v", "g">>, <<"i", "c", "o">>, <<"b", "m", "p">>,
    <<"m", "p", "3">>, <<"w", "a", "v">>, <<"o", "g", "g">>, <<"f", "l", "a", "c">>, <<"m", "4", "a">>,
    <<"m", "p", "4">>, <<"w", "e", "b", "m">>, <<"m", "k", "v">>, <<"a", "v", "i">>, <<"m", "o", "v">>,
    <<"p", "d", "f">>, <<"z", "i", "p">>, <<"t", "a", "r">>, <<"g", "z">>, <<"7", "z">>, <<"r", "a", "r">>,
    <<"e", "x", "e">>, <<"d", "l", "l">>, <<"s", "o">>, <<"d", "y", "l", "i", "b">>,
    <<"w", "o", "f", "f">>, <<"w", "o", "f", "f", "2">>, <<"t", "t", "f">>, <<"o", "t", "f">>, <<"e", "o", "t">>}

CARD_MIN_WIDTH == 250

CARD_GAP == 12

HEADER_HEIGHT == 39

PREVIEW_PADDING == 24

LINE_HEIGHT == 20

CARD_BORDER == 2

\* the sentinel previews of getPreview
EmptyPreview == <<"[", "e", "m", "p", "t", "y", "]">>

UnableToRead == <<"[", "u", "n", "a", "b", "l", "e", " ", "t", "o", " ", "r", "e", "a", "d", "]">>

BinaryPreview(ext) == <<"[">> \o ext \o <<" ", "f", "i", "l", "e", "]">>

----------------------------------------------------------------------------
(* The vault: the files the data source can hand to the view               *)

Files == {"fa", "fb", "fc", "fd"}

\* TFile.path
path == [f \in Files |->
    CASE f = "fa" -> <<"a", ".", "m", "d">>
      [] f = "fb" -> <<"b", ".", "P", "N", "G">>
      [] f = "fc" -> <<"c", ".", "t", "x", "t">>
      [] f = "fd" -> <<"d", ".", "m", "d">>]

\* TFile.extension
extension == [f \in Files |->
    CASE f = "fa" -> <<"m", "d">>
      [] f = "fb" -> <<"P", "N", "G">>
      [] f = "fc" -> <<"t", "x", "t">>
      [] f = "fd" -> <<"m", "d">>]

\* what app.vault.read(file) resolves to when the read succeeds
vaultContent == [f \in Files |->
    CASE f = "fa" -> <<"-", "-", "-", "\n", "k", ":", " ", "v", "\n", "-", "-", "-", "\n", "#", " ", "T", "i", "t", "l", "e", "\n", "\n", "*", "*", "b", "o", "l", "d", "*", "*", " ", "t", "e", "x", "t", "\n", "m", "o", "r", "e">>
      [] f = "fb" -> <<"P", "N", "G">>
      [] f = "fc" -> <<"o", "n", "e", "\n", "\n", " ", " ", "t", "w", "o", " ", "\n", "t", "h", "r", "e", "e">>
      [] f = "fd" -> <<"\n", " ", " ", "\n">>]

\* an Entry of the data source: { file?: TFile | null }
Entry(f) == [file |-> f]

\* e.file instanceof TFile
IsTFile(e) == e.file \in Files

----------------------------------------------------------------------------
(* The synchronous helpers of SpreadView                                   *)

Max2(a, b) == IF a >= b THEN a ELSE b

Min2(a, b) == IF a <= b THEN a ELSE b

\* Math.max(...xs) of a non-empty sequence of numbers
RECURSIVE MaxOf(_)
MaxOf(xs) == IF Len(xs) = 1 THEN xs[1] ELSE Max2(xs[1], MaxOf(Tail(xs)))

\* computeCardHeight counting every line of the preview
computeCardHeightUncapped(lineCount, showName, maxLines) ==
    LET headerHeight == IF showName THEN HEADER_HEIGHT ELSE 0
    IN  headerHeight + PREVIEW_PADDING + lineCount * LINE_HEIGHT + CARD_BORDER

\* computeCardHeight, with the fields of this it reads as parameters
computeCardHeight(lineCount, showName, maxLines) ==
    LET headerHeight == IF showName THEN HEADER_HEIGHT ELSE 0
        contentLines == Min2(lineCount, maxLines)
    IN  headerHeight + PREVIEW_PADDING + contentLines * LINE_HEIGHT + CARD_BORDER

\* the promise of a getPreview call that awaits app.vault.read
PENDING == [settled |-> FALSE, preview |-> <<>>, failed |-> FALSE]

\* the promise of a getPreview call that returned: failed records that the
\* read rejected
Settled(preview, failed) == [settled |-> TRUE, preview |-> preview, failed |-> failed]

\* getPreview comparing the extension without lowercasing it
getPreviewStartCaseSensitive(file) ==
    IF extension[file] \in BINARY_EXTENSIONS
    THEN Settled(BinaryPreview(toLowerCase(extension[file])), FALSE)
    ELSE PENDING

\* getPreview up to its await: a binary extension resolves to the sentinel at
\* once, any other file has app.vault.read called on it
getPreviewStart(file) ==
    LET ext == toLowerCase(extension[file])
    IN  IF ext \in BINARY_EXTENSIONS
        THEN Settled(BinaryPreview(ext), FALSE)
        ELSE PENDING

\* getPreview taking the first maxLines lines before it discards the empty ones
getPreviewContentSliceFirst(file, content, stripFm, maxLines) ==
    LET ext == toLowerCase(extension[file])
        c1 == IF stripFm THEN FRONTMATTER_REGEX(content) ELSE content
        c2 == IF ext = <<"m", "d">> \/ ext = <<"m", "a", "r", "k", "d", "o", "w", "n">>
              THEN stripMarkdown(c1) ELSE c1
        trimmed == [i \in 1..Len(split(c2, NL)) |-> trim(split(c2, NL)[i])]
        lines == FilterNonEmpty(slice0(trimmed, maxLines))
        joined == join(lines, NL)
    IN  IF Len(joined) > 0 THEN joined ELSE EmptyPreview

\* getPreview after its await, when the read resolved with content
getPreviewContent(file, content, stripFm, maxLines) ==
    LET ext == toLowerCase(extension[file])
        c1 == IF stripFm THEN FRONTMATTER_REGEX(content) ELSE content
        c2 == IF ext = <<"m", "d">> \/ ext = <<"m", "a", "r", "k", "d", "o", "w", "n">>
              THEN stripMarkdown(c1) ELSE c1
        trimmed == [i \in 1..Len(split(c2, NL)) |-> trim(split(c2, NL)[i])]
        lines == slice0(FilterNonEmpty(trimmed), maxLines)
        joined == join(lines, NL)
    IN  IF Len(joined) > 0 THEN joined ELSE EmptyPreview

\* getPreviewContent of every file of the vault under every configuration,
\* computed once
ContentPreview == [f \in Files |-> [sf \in BOOLEAN |-> [n \in 1..20 |->
    getPreviewContent(f, vaultContent[f], sf, n)]]]

\* getPreview whose catch branch returns the sentinel of an empty file
getPreviewResumeEmptyOnError(file, ok, stripFm, maxLines) ==
    IF ok
    THEN Settled(ContentPreview[file][stripFm][maxLines], FALSE)
    ELSE Settled(EmptyPreview, TRUE)

\* getPreview after its await: ok is whether the read resolved or rejected
getPreviewResume(file, ok, stripFm, maxLines) ==
    IF ok
    THEN Settled(ContentPreview[file][stripFm][maxLines], FALSE)
    ELSE Settled(UnableToRead, TRUE)

\* entries.filter(e => e.file instanceof TFile)
validEntries(entries) == SelectSeq(entries, IsTFile)

\* preprocessEntries after Promise.all resolved: previews[i] belongs to valid[i]
preprocessEntries(entries, previews, showName, maxLines) ==
    LET valid == validEntries(entries)
    IN  [i \in 1..Len(valid) |->
            LET preview == previews[i]
                lineCount == Len(split(preview, NL))
            IN  [file |-> valid[i].file, preview |-> preview, lineCount |-> lineCount,
                 height |-> computeCardHeight(lineCount, showName, maxLines)]]

\* the capacity of a row computed without the gap that follows the last card
cardsPerRowOfGapless(containerWidth) ==
    Max2(1, containerWidth \div (CARD_MIN_WIDTH + CARD_GAP))

\* Math.max(1, Math.floor((containerWidth + CARD_GAP) / (CARD_MIN_WIDTH + CARD_GAP)))
cardsPerRowOf(containerWidth) ==
    Max2(1, (containerWidth + CARD_GAP) \div (CARD_MIN_WIDTH + CARD_GAP))

\* the loop of groupIntoRows with the increment one too large
RECURSIVE GroupFromSkipping(_, _, _)
GroupFromSkipping(entries, i, cardsPerRow) ==
    IF i > Len(entries) THEN <<>>
    ELSE LET rowEntries == Slice(entries, i, Min2(i + cardsPerRow - 1, Len(entries)))
             heights == [k \in 1..Len(rowEntries) |-> rowEntries[k].height]
         IN  <<[entries |-> rowEntries, height |-> MaxOf(heights)]>>
             \o GroupFromSkipping(entries, i + cardsPerRow + 1, cardsPerRow)

\* the loop of groupIntoRows, from index i (1-based)
RECURSIVE GroupFrom(_, _, _)
GroupFrom(entries, i, cardsPerRow) ==
    IF i > Len(entries) THEN <<>>
    ELSE LET rowEntries == Slice(entries, i, Min2(i + cardsPerRow - 1, Len(entries)))
             heights == [k \in 1..Len(rowEntries) |-> rowEntries[k].height]
         IN  <<[entries |-> rowEntries, height |-> MaxOf(heights)]>>
             \o GroupFrom(entries, i + cardsPerRow, cardsPerRow)

groupIntoRows(entries, containerWidth) ==
    GroupFrom(entries, 1, cardsPerRowOf(containerWidth))

\* entries[k]?.file?.path ?? "" (k is 0-based)
PathAt(entries, k) ==
    IF entries[k + 1].file \in Files THEN path[entries[k + 1].file] ELSE <<>>

\* computeHash sampling the entry before the middle one
computeHashLowMid(entries) ==
    IF Len(entries) = 0 THEN <<>>
    ELSE LET first == PathAt(entries, 0)
             mid == PathAt(entries, (Len(entries) - 1) \div 2)
             last == PathAt(entries, Len(entries) - 1)
         IN  ToDecimal(Len(entries)) \o <<"|">> \o first \o <<"|">> \o mid
             \o <<"|">> \o last

computeHash(entries) ==
    IF Len(entries) = 0 THEN <<>>
    ELSE LET first == PathAt(entries, 0)
             mid == PathAt(entries, Len(entries) \div 2)
             last == PathAt(entries, Len(entries) - 1)
         IN  ToDecimal(Len(entries)) \o <<"|">> \o first \o <<"|">> \o mid
             \o <<"|">> \o last

\* a change detector that never reports the hash as unchanged
hashNeverUnchanged(hash, lastHash) == FALSE

\* hash === this.lastRenderHash
hashUnchanged(hash, lastHash) == hash = lastHash

\* this.containerEl.clientWidth || 800
containerWidthOf(w) == IF w = 0 THEN 800 ELSE w

----------------------------------------------------------------------------
(* The view and its host                                                   *)

VARIABLES
    lifecycle,         \* "new" (constructed), "loaded" (after onload), "unloaded"
    data,              \* this.data, see NoData, NoList, DataOf
    config,            \* this.config, see NoConfig, ConfigOf
    previewLines,      \* this.previewLines
    showFileName,      \* this.showFileName
    stripFrontmatter,  \* this.stripFrontmatter
    monoFont,          \* this.monoFont
    renderTimeout,     \* this.renderTimeout: NULL or a timer id
    resizeTimeout,     \* this.resizeTimeout: NULL or a timer id
    lastRenderHash,    \* this.lastRenderHash
    resizeObserver,    \* this.resizeObserver: NULL or the observer
    processedEntries,  \* this.processedEntries
    mount,             \* what is rendered into this.mountEl
    clientWidth,       \* this.containerEl.clientWidth
    hostTimers,        \* window: the armed timers, [id, cb]
    observing,         \* host: the ResizeObserver observes containerEl
    resizeQueued,      \* host: a resize notification awaits delivery
    passes,            \* the bag of renderView calls suspended at their file reads
    peFrom,            \* history: the entries the pass that stored processedEntries read
    peFailed,          \* history: the indices of processedEntries whose read failed
    mountFrom,         \* history: the entries the displayed content was made from
    peOrder,           \* history: the order in which the reads of that pass settled
    lastRender,        \* history: how the latest renderView call went
    call               \* a direct call of an exported function (main.test.ts)

viewVars == <<lifecycle, data, config, previewLines, showFileName, stripFrontmatter,
              monoFont, renderTimeout, resizeTimeout, lastRenderHash, resizeObserver,
              processedEntries, mount, clientWidth, hostTimers, observing,
              resizeQueued, passes, peFrom, peFailed, mountFrom, peOrder, lastRender>>

vars == <<viewVars, call>>

\* the most renderView calls suspended at their reads at one time
MaxPasses == 2

\* this.data is not set
NoData == [set |-> FALSE, list |-> FALSE, data |-> <<>>]

\* this.data is set and this.data.data is null or undefined
NoList == [set |-> TRUE, list |-> FALSE, data |-> <<>>]

\* this.data is set and this.data.data is the entry sequence d
DataOf(d) == [set |-> TRUE, list |-> TRUE, data |-> d]

\* the entries a history variable records: none yet, or the sequence a pass read
NoSnapshot == [taken |-> FALSE, entries |-> <<>>]

Snapshot(entries) == [taken |-> TRUE, entries |-> entries]

\* the ids window.setTimeout hands out
TimerIds == {"t1", "t2", "t3"}

\* a value of the settings store, with its typeof
Num(n) == [t |-> "number", v |-> n]

Bool(b) == [t |-> "boolean", v |-> b]

\* the number NaN (typeof NaN is "number"); the numbers of the model are
\* integers and no other number of a settings store is negative, so that -1
\* stands for it
NaN == -1

Absent == [t |-> "undefined", v |-> NULL]

ConfigKeys == {"previewLines", "showFileName", "stripFrontmatter", "monoFont"}

\* this.config is not set
NoConfig == [set |-> FALSE, get |-> [k \in ConfigKeys |-> Absent]]

\* this.config is the settings store whose get(k) returns store[k]
ConfigOf(store) == [set |-> TRUE, get |-> store]

\* a settings store that sets all four keys
AltConfig == [k \in ConfigKeys |->
    CASE k = "previewLines"     -> Num(2)
      [] k = "showFileName"     -> Bool(FALSE)
      [] k = "stripFrontmatter" -> Bool(FALSE)
      [] k = "monoFont"         -> Bool(TRUE)]

ConfigChoices == {NoConfig, ConfigOf(AltConfig)}

\* the entry sequences the data source supplies
DataEmpty == <<>>

DataA == <<Entry("fb"), Entry("fa"), Entry(NULL), Entry("fc")>>

\* DataA with another interior entry: same count, first, middle and last
DataB == <<Entry("fb"), Entry(NULL), Entry(NULL), Entry("fc")>>

\* what the data source supplies with a data-updated notification
EntryLists == {DataEmpty, DataA, DataB}

DataChoices == {DataOf(d) : d \in EntryLists}

\* what this.data can be when the view is loaded
InitialData == DataChoices \cup {NoData, NoList}

Widths == {0, 300}

\* what render(...) leaves in mountEl
NoContent == [kind |-> "none"]

EmptyState == [kind |-> "empty"]

SpreadCards(rows, showName, mono) ==
    [kind |-> "cards", rows |-> rows, showFileName |-> showName, monoFont |-> mono]

NoCall == [fn |-> "none"]

\* the longest ProcessedEntry sequence handed to groupIntoRows directly
MaxRowEntries == 3

\* the longest entry sequence handed to computeHash directly
MaxHashEntries == 4

\* mockEntry of the tests of groupIntoRows
mockEntry(f, height) == [file |-> f, preview |-> <<>>, lineCount |-> 1, height |-> height]

MockEntries == {mockEntry(f, h) : f \in {"fa", "fb", "fc"}, h \in {100, 150, 200}}

TestWidths == {0 - 300, 0, 249, 250, 512, 800}

SeqsUpTo(S, n) == UNION {[1..k -> S] : k \in 0..n}

GroupCalls == {[fn |-> "groupIntoRows", entries |-> es, width |-> w, done |-> FALSE,
                result |-> <<>>] : es \in SeqsUpTo(MockEntries, MaxRowEntries),
                                   w \in TestWidths}

HashCalls == {[fn |-> "computeHash", entries |-> es, width |-> 0, done |-> FALSE,
               result |-> <<>>] :
                  es \in SeqsUpTo({Entry(f) : f \in Files \cup {NULL}}, MaxHashEntries)}

\* the longest file content handed to getPreview directly
MaxContentLen == 5

\* what a read can resolve to: the short texts, the text of the sentinel of an
\* empty file, and the note with frontmatter of the vault
SampleContents ==
    SeqsUpTo({"a", " ", NL, "#"}, MaxContentLen) \cup {EmptyPreview, vaultContent["fa"]}

PreviewCalls == {[fn |-> "getPreview", file |-> f, content |-> c, stripFm |-> sf,
                  maxLines |-> n, done |-> FALSE, result |-> <<>>] :
                     f \in {"fa", "fc"}, c \in SampleContents, sf \in BOOLEAN,
                     n \in {1, 2, 3}}

\* the greatest line count handed to computeCardHeight directly
MaxLineCount == 8

HeightCalls == {[fn |-> "computeCardHeight", lineCount |-> l, showName |-> b,
                 maxLines |-> n, done |-> FALSE, result |-> 0] :
                    l \in 0..MaxLineCount, b \in BOOLEAN, n \in 1..20}

\* the markdown of a link, [text](target), or of an image, ![text](target)
MarkdownRef(kind, text, target) ==
    (IF kind = "image" THEN <<"!">> ELSE <<>>)
        \o <<"[">> \o text \o <<"]", "(">> \o target \o <<")">>

\* the inputs of the tests of stripMarkdown on links and images, and shorter ones
StripCalls == {[fn |-> "stripMarkdown", kind |-> kd, text |-> tx,
                input |-> MarkdownRef(kd, tx, tg), done |-> FALSE, result |-> <<>>] :
                   kd \in {"link", "image"},
                   tx \in {<<"a">>, <<"a", "l", "t", " ", "t", "e", "x", "t">>},
                   tg \in {<<"u">>, <<"i", "m", "a", "g", "e", ".", "p", "n", "g">>}}

ViewInit ==
    /\ lifecycle = "new"
    /\ previewLines = 5
    /\ showFileName = TRUE
    /\ stripFrontmatter = TRUE
    /\ monoFont = FALSE
    /\ renderTimeout = NULL
    /\ resizeTimeout = NULL
    /\ lastRenderHash = <<>>
    /\ resizeObserver = NULL
    /\ processedEntries = <<>>
    /\ mount = NoContent
    /\ hostTimers = {}
    /\ observing = FALSE
    /\ resizeQueued = FALSE
    /\ passes = EmptyBag
    /\ peFrom = NoSnapshot
    /\ peFailed = {}
    /\ mountFrom = NoSnapshot
    /\ peOrder = <<>>
    /\ lastRender = "none"

Init ==
    /\ ViewInit
    /\ data \in InitialData
    /\ config \in ConfigChoices
    /\ clientWidth \in Widths
    /\ call = NoCall

----------------------------------------------------------------------------
(* The methods of SpreadView                                               *)

\* typeof lines === "number" ? Math.max(1, Math.min(20, lines)) : unchanged;
\* Math.min and Math.max return NaN when an argument is NaN
loadPreviewLines(value, current) ==
    IF value.t = "number"
    THEN IF value.v = NaN THEN NaN ELSE Max2(1, Min2(20, value.v))
    ELSE current

\* a toggle that takes any value of the store by its truthiness
loadToggleTruthy(value, current) ==
    IF value.t = "boolean" THEN value.v
    ELSE IF value.t = "number" THEN value.v # 0
    ELSE current

\* typeof value === "boolean" ? value : unchanged
loadToggle(value, current) ==
    IF value.t = "boolean" THEN value.v ELSE current

\* the four fields loadConfig assigns
Fields == [previewLines |-> previewLines, showFileName |-> showFileName,
           stripFrontmatter |-> stripFrontmatter, monoFont |-> monoFont]

loadConfig ==
    IF ~config.set
    THEN UNCHANGED <<previewLines, showFileName, stripFrontmatter, monoFont>>
    ELSE /\ previewLines' = loadPreviewLines(config.get["previewLines"], previewLines)
         /\ showFileName' = loadToggle(config.get["showFileName"], showFileName)
         /\ stripFrontmatter' = loadToggle(config.get["stripFrontmatter"], stripFrontmatter)
         /\ monoFont' = loadToggle(config.get["monoFont"], monoFont)

\* window.setTimeout: an id that no armed timer has
FreeIds == {id \in TimerIds : \A t \in hostTimers : t.id # id}

FreshId == CHOOSE id \in FreeIds : TRUE

\* all promises handed to Promise.all have resolved
AllSettled(results) == \A i \in 1..Len(results) : results[i].settled

\* a Promise.all that collects the values in the order they arrive
PromiseAllByArrival(results, i, r) ==
    LET k == CHOOSE j \in 1..Len(results) :
                 ~results[j].settled /\ \A h \in 1..(j - 1) : results[h].settled
    IN  [results EXCEPT ![k] = r]

\* Promise.all: the value of the promise at index i lands at index i
PromiseAllResolve(results, i, r) == [results EXCEPT ![i] = r]

\* a store that appends to this.processedEntries
StoreProcessedAppend(old, new) == old \o new

\* this.processedEntries = await this.preprocessEntries(entries)
StoreProcessed(old, new) == new

\* renderView from the return of preprocessEntries on: it reads the fields
\* of this as they are when the awaited promise resolves
renderViewResume(entries, results, order) ==
    LET previews == [i \in 1..Len(results) |-> results[i].preview]
        processed == StoreProcessed(processedEntries,
                        preprocessEntries(entries, previews, showFileName', previewLines'))
        rows == groupIntoRows(processed, containerWidthOf(clientWidth'))
    IN  /\ processedEntries' = processed
        /\ mount' = SpreadCards(rows, showFileName', monoFont')
        /\ peFrom' = Snapshot(entries)
        /\ peFailed' = {i \in 1..Len(results) : results[i].failed}
        /\ peOrder' = order
        /\ mountFrom' = Snapshot(entries)

\* renderView up to its await (and to its end when no read is awaited); the
\* caller has set the fields of the configuration and clientWidth. A
\* suspended pass carries, as history, the fields it started under.
renderView ==
    IF ~data.set
    THEN /\ lastRender' = "nodata"
         /\ UNCHANGED <<lastRenderHash, processedEntries, mount, passes, peFrom,
                        peFailed, peOrder, mountFrom>>
    ELSE LET entries == IF data.list THEN data.data ELSE <<>>
             hash == computeHash(entries)
             valid == validEntries(entries)
             started == [i \in 1..Len(valid) |-> getPreviewStart(valid[i].file)]
         IN  IF hashUnchanged(hash, lastRenderHash)
             THEN /\ lastRender' = "skipped"
                  /\ UNCHANGED <<lastRenderHash, processedEntries, mount, passes,
                                 peFrom, peFailed, peOrder, mountFrom>>
             ELSE /\ lastRenderHash' = hash
                  /\ lastRender' = "ran"
                  /\ IF Len(entries) = 0
                     THEN /\ mount' = EmptyState
                          /\ mountFrom' = Snapshot(entries)
                          /\ UNCHANGED <<processedEntries, passes, peFrom, peFailed,
                                         peOrder>>
                     ELSE IF AllSettled(started)
                     THEN /\ renderViewResume(entries, started, <<>>)
                          /\ UNCHANGED passes
                     ELSE /\ BagCardinality(passes) < MaxPasses
                          /\ passes' = passes (+) SetToBag({[entries |-> entries,
                                                            results |-> started,
                                                            order |-> <<>>,
                                                            startConfig |-> Fields']})
                          /\ UNCHANGED <<processedEntries, mount, peFrom, peFailed,
                                         peOrder, mountFrom>>

\* rerenderWithCurrentEntries packing at the fallback width whatever the
\* container's width
rerenderAtFallbackWidth ==
    LET rows == groupIntoRows(processedEntries, 800)
    IN  /\ mount' = SpreadCards(rows, showFileName, monoFont)
        /\ mountFrom' = peFrom

rerenderWithCurrentEntries ==
    LET rows == groupIntoRows(processedEntries, containerWidthOf(clientWidth))
    IN  /\ mount' = SpreadCards(rows, showFileName, monoFont)
        /\ mountFrom' = peFrom

\* scheduleRender without the check of this.renderTimeout
scheduleRenderAlways ==
    /\ FreeIds # {}
    /\ renderTimeout' = FreshId
    /\ hostTimers' = hostTimers \cup {[id |-> FreshId, cb |-> "render"]}

scheduleRender ==
    IF renderTimeout # NULL
    THEN UNCHANGED <<renderTimeout, hostTimers>>
    ELSE /\ FreeIds # {}
         /\ renderTimeout' = FreshId
         /\ hostTimers' = hostTimers \cup {[id |-> FreshId, cb |-> "render"]}

\* new ResizeObserver(callback).observe(containerEl); the host queues a first
\* notification for the newly observed element
setupResizeObserver ==
    /\ resizeObserver' = "ResizeObserver"
    /\ observing' = TRUE
    /\ resizeQueued' = TRUE

onload ==
    /\ lifecycle = "new"
    /\ lifecycle' = "loaded"
    /\ loadConfig
    /\ setupResizeObserver
    /\ UNCHANGED <<data, config, clientWidth, renderTimeout, resizeTimeout, hostTimers,
                   call>>
    /\ renderView

\* window.clearTimeout(id)
clearTimeout(timers, id) == {t \in timers : t.id # id}

\* onunload without the clearing of the resize timer
onunloadLeavesResizeTimer ==
    /\ lifecycle = "loaded"
    /\ lifecycle' = "unloaded"
    /\ renderTimeout' = NULL
    /\ hostTimers' = clearTimeout(hostTimers, renderTimeout)
    /\ IF resizeObserver # NULL
       THEN observing' = FALSE /\ resizeQueued' = FALSE
       ELSE UNCHANGED <<observing, resizeQueued>>
    /\ resizeObserver' = NULL
    /\ processedEntries' = <<>>
    /\ lastRenderHash' = <<>>
    /\ mount' = NoContent
    /\ peFrom' = NoSnapshot
    /\ peFailed' = {}
    /\ peOrder' = <<>>
    /\ mountFrom' = NoSnapshot
    /\ UNCHANGED <<data, config, previewLines, showFileName, stripFrontmatter, monoFont,
                   resizeTimeout, clientWidth, passes, lastRender, call>>

onunload ==
    /\ lifecycle = "loaded"
    /\ lifecycle' = "unloaded"
    /\ renderTimeout' = NULL
    /\ resizeTimeout' = NULL
    /\ hostTimers' = clearTimeout(clearTimeout(hostTimers, renderTimeout), resizeTimeout)
    /\ IF resizeObserver # NULL
       THEN observing' = FALSE /\ resizeQueued' = FALSE
       ELSE UNCHANGED <<observing, resizeQueued>>
    /\ resizeObserver' = NULL
    /\ processedEntries' = <<>>
    /\ lastRenderHash' = <<>>
    /\ mount' = NoContent
    /\ peFrom' = NoSnapshot
    /\ peFailed' = {}
    /\ peOrder' = <<>>
    /\ mountFrom' = NoSnapshot
    /\ UNCHANGED <<data, config, previewLines, showFileName, stripFrontmatter, monoFont,
                   clientWidth, passes, lastRender, call>>

\* onDataUpdated scheduling a render only when no render pass is suspended
onDataUpdatedIdleOnly(d) ==
    /\ lifecycle = "loaded"
    /\ data' = d
    /\ loadConfig
    /\ IF passes = EmptyBag THEN scheduleRender ELSE UNCHANGED <<renderTimeout, hostTimers>>
    /\ UNCHANGED <<lifecycle, config, resizeTimeout, lastRenderHash, resizeObserver,
                   processedEntries, mount, clientWidth, observing, resizeQueued, passes,
                   peFrom, peFailed, peOrder, mountFrom, lastRender, call>>

\* the host replaces this.data and calls onDataUpdated
onDataUpdated(d) ==
    /\ lifecycle = "loaded"
    /\ data' = d
    /\ loadConfig
    /\ scheduleRender
    /\ UNCHANGED <<lifecycle, config, resizeTimeout, lastRenderHash, resizeObserver,
                   processedEntries, mount, clientWidth, observing, resizeQueued, passes,
                   peFrom, peFailed, peOrder, mountFrom, lastRender, call>>

\* the callback scheduleRender handed to window.setTimeout runs
renderTimerFires ==
    /\ \E t \in hostTimers : t.cb = "render" /\ hostTimers' = hostTimers \ {t}
    /\ renderTimeout' = NULL
    /\ UNCHANGED <<lifecycle, data, config, previewLines, showFileName, stripFrontmatter,
                   monoFont, resizeTimeout, resizeObserver, clientWidth, observing,
                   resizeQueued, call>>
    /\ renderView

\* the host delivers a resize notification to the ResizeObserver callback
resizeObserverCallback ==
    /\ observing
    /\ resizeQueued
    /\ resizeQueued' = FALSE
    /\ IF Len(processedEntries) = 0 \/ resizeTimeout # NULL
       THEN UNCHANGED <<resizeTimeout, hostTimers>>
       ELSE /\ FreeIds # {}
            /\ resizeTimeout' = FreshId
            /\ hostTimers' = hostTimers \cup {[id |-> FreshId, cb |-> "resize"]}
    /\ UNCHANGED <<lifecycle, data, config, previewLines, showFileName, stripFrontmatter,
                   monoFont, renderTimeout, lastRenderHash, resizeObserver,
                   processedEntries, mount, clientWidth, observing, passes, peFrom,
                   peFailed, peOrder, mountFrom, lastRender, call>>

\* the callback the ResizeObserver callback handed to window.setTimeout runs
resizeTimerFires ==
    /\ \E t \in hostTimers : t.cb = "resize" /\ hostTimers' = hostTimers \ {t}
    /\ resizeTimeout' = NULL
    /\ rerenderWithCurrentEntries
    /\ UNCHANGED <<lifecycle, data, config, previewLines, showFileName, stripFrontmatter,
                   monoFont, renderTimeout, lastRenderHash, resizeObserver,
                   processedEntries, clientWidth, observing, resizeQueued, passes,
                   peFrom, peFailed, peOrder, lastRender, call>>

\* the container gets another width; an observing ResizeObserver is notified
Resize(w) ==
    /\ lifecycle # "new"
    /\ w # clientWidth
    /\ clientWidth' = w
    /\ resizeQueued' = observing
    /\ UNCHANGED <<lifecycle, data, config, previewLines, showFileName, stripFrontmatter,
                   monoFont, renderTimeout, resizeTimeout, lastRenderHash, resizeObserver,
                   processedEntries, mount, hostTimers, observing, passes, peFrom,
                   peFailed, peOrder, mountFrom, lastRender, call>>

\* reads awaited one after the other: the read of an entry settles only when
\* the previews of all entries before it are there
readSettlesInOrder(p, i, ok) ==
    /\ BagIn(p, passes)
    /\ i \in 1..Len(p.results)
    /\ ~p.results[i].settled
    /\ \A j \in 1..(i - 1) : p.results[j].settled
    /\ UNCHANGED <<lifecycle, data, config, previewLines, showFileName, stripFrontmatter,
                   monoFont, renderTimeout, resizeTimeout, lastRenderHash, resizeObserver,
                   clientWidth, hostTimers, observing, resizeQueued, lastRender, call>>
    /\ LET file == validEntries(p.entries)[i].file
           r == getPreviewResume(file, ok, stripFrontmatter, previewLines)
           results == PromiseAllResolve(p.results, i, r)
           order == Append(p.order, i)
       IN  IF AllSettled(results)
           THEN /\ passes' = passes (-) SetToBag({p})
                /\ renderViewResume(p.entries, results, order)
           ELSE /\ passes' = (passes (-) SetToBag({p}))
                                 (+) SetToBag({[p EXCEPT !.results = results,
                                                         !.order = order]})
                /\ UNCHANGED <<processedEntries, mount, peFrom, peFailed, peOrder,
                               mountFrom>>

\* app.vault.read of the i-th valid entry of the suspended pass p resolves
\* (ok) or rejects; getPreview resumes, and when it was the last read awaited
\* Promise.all resolves and renderView runs to its end
readSettles(p, i, ok) ==
    /\ BagIn(p, passes)
    /\ i \in 1..Len(p.results)
    /\ ~p.results[i].settled
    /\ UNCHANGED <<lifecycle, data, config, previewLines, showFileName, stripFrontmatter,
                   monoFont, renderTimeout, resizeTimeout, lastRenderHash, resizeObserver,
                   clientWidth, hostTimers, observing, resizeQueued, lastRender, call>>
    /\ LET file == validEntries(p.entries)[i].file
           r == getPreviewResume(file, ok, stripFrontmatter, previewLines)
           results == PromiseAllResolve(p.results, i, r)
           order == Append(p.order, i)
       IN  IF AllSettled(results)
           THEN /\ passes' = passes (-) SetToBag({p})
                /\ renderViewResume(p.entries, results, order)
           ELSE /\ passes' = (passes (-) SetToBag({p}))
                                 (+) SetToBag({[p EXCEPT !.results = results,
                                                         !.order = order]})
                /\ UNCHANGED <<processedEntries, mount, peFrom, peFailed, peOrder,
                               mountFrom>>

Next ==
    \/ onload
    \/ onunload
    \/ \E d \in DataChoices : onDataUpdated(d)
    \/ renderTimerFires
    \/ resizeObserverCallback
    \/ resizeTimerFires
    \/ \E w \in Widths : Resize(w)
    \/ \E p \in BagToSet(passes) : \E i \in 1..Len(p.results) : readSettles(p, i, TRUE)

\* every read of the vault resolves
Spec == Init /\ [][Next]_vars

\* reads of the vault may also reject; here the view stays loaded, the
\* container keeps its size and the render timer fires when no earlier pass
\* is still suspended
renderTimerFiresIdle == passes = EmptyBag /\ renderTimerFires

NextFail ==
    \/ onload
    \/ \E d \in DataChoices : onDataUpdated(d)
    \/ renderTimerFiresIdle
    \/ \E p \in BagToSet(passes) : \E i \in 1..Len(p.results) : \E ok \in BOOLEAN :
           readSettles(p, i, ok)

SpecFail == Init /\ [][NextFail]_vars

\* the data source notifies the view while fewer than MaxPasses passes are
\* suspended, so that the pass the notification leads to can start
onDataUpdatedBounded(d) == BagCardinality(passes) < MaxPasses /\ onDataUpdated(d)

\* app.vault.read of an entry of a suspended pass resolves
readResolves ==
    \E p \in BagToSet(passes) : \E i \in 1..Len(p.results) : readSettles(p, i, TRUE)

\* the view stays attached and the container keeps its size
NextLive ==
    \/ onload
    \/ \E d \in DataChoices : onDataUpdatedBounded(d)
    \/ renderTimerFires
    \/ readResolves

\* every armed timer fires: the event loop of the host runs its callback
SpecLive == Init /\ [][NextLive]_vars /\ WF_vars(renderTimerFires)

----------------------------------------------------------------------------
(* Direct calls of the exported functions, as the tests make them          *)

InitCalls ==
    /\ ViewInit
    /\ data = NoData
    /\ config = NoConfig
    /\ clientWidth = 0
    /\ call \in GroupCalls \cup HashCalls \cup PreviewCalls \cup HeightCalls \cup StripCalls

callGroupIntoRows ==
    /\ call.fn = "groupIntoRows"
    /\ ~call.done
    /\ call' = [call EXCEPT !.done = TRUE,
                            !.result = groupIntoRows(call.entries, call.width)]
    /\ UNCHANGED viewVars

callComputeHash ==
    /\ call.fn = "computeHash"
    /\ ~call.done
    /\ call' = [call EXCEPT !.done = TRUE, !.result = computeHash(call.entries)]
    /\ UNCHANGED viewVars

\* getPreview(file) of a non-binary file whose read resolves to call.content
callGetPreview ==
    /\ call.fn = "getPreview"
    /\ ~call.done
    /\ call' = [call EXCEPT !.done = TRUE,
                            !.result = getPreviewContent(call.file, call.content,
                                                         call.stripFm, call.maxLines)]
    /\ UNCHANGED viewVars

callComputeCardHeight ==
    /\ call.fn = "computeCardHeight"
    /\ ~call.done
    /\ call' = [call EXCEPT !.done = TRUE,
                            !.result = computeCardHeight(call.lineCount, call.showName,
                                                         call.maxLines)]
    /\ UNCHANGED viewVars

callStripMarkdown ==
    /\ call.fn = "stripMarkdown"
    /\ ~call.done
    /\ call' = [call EXCEPT !.done = TRUE, !.result = stripMarkdown(call.input)]
    /\ UNCHANGED viewVars

NextCalls ==
    \/ callGroupIntoRows
    \/ callComputeHash
    \/ callGetPreview
    \/ callComputeCardHeight
    \/ callStripMarkdown

SpecCalls == InitCalls /\ [][NextCalls]_vars

----------------------------------------------------------------------------
(* loadConfig against a settings store that the host changes               *)

\* what config.get can return for a key: nothing, a number in, below or above
\* the range of the slider, the number NaN, or a boolean
SettingValues == {Absent, Num(0), Num(7), Num(25), Num(NaN), Bool(TRUE), Bool(FALSE)}

InitLoad ==
    /\ ViewInit
    /\ data = NoData
    /\ config \in {NoConfig, ConfigOf([k \in ConfigKeys |-> Absent])}
    /\ clientWidth = 0
    /\ call = NoCall

\* the host stores a value under one key of the settings
setSetting(k, v) ==
    /\ config.set
    /\ config' = [config EXCEPT !.get[k] = v]
    /\ call' = NoCall
    /\ UNCHANGED <<lifecycle, data, previewLines, showFileName, stripFrontmatter,
                   monoFont, renderTimeout, resizeTimeout, lastRenderHash, resizeObserver,
                   processedEntries, mount, clientWidth, hostTimers, observing,
                   resizeQueued, passes, peFrom, peFailed, mountFrom, peOrder, lastRender>>

\* the host takes the settings store away (this.config is undefined) or
\* hands an empty one to the view
swapConfig ==
    /\ config' = IF config.set THEN NoConfig ELSE ConfigOf([k \in ConfigKeys |-> Absent])
    /\ call' = NoCall
    /\ UNCHANGED <<lifecycle, data, previewLines, showFileName, stripFrontmatter,
                   monoFont, renderTimeout, resizeTimeout, lastRenderHash, resizeObserver,
                   processedEntries, mount, clientWidth, hostTimers, observing,
                   resizeQueued, passes, peFrom, peFailed, mountFrom, peOrder, lastRender>>

\* this.loadConfig(): call records the store and the fields it started from
callLoadConfig ==
    /\ loadConfig
    /\ call' = [fn |-> "loadConfig", store |-> config, before |-> Fields]
    /\ UNCHANGED <<lifecycle, data, config, renderTimeout, resizeTimeout, lastRenderHash,
                   resizeObserver, processedEntries, mount, clientWidth, hostTimers,
                   observing, resizeQueued, passes, peFrom, peFailed, mountFrom, peOrder,
                   lastRender>>

NextLoad ==
    \/ \E k \in ConfigKeys : \E v \in SettingValues : setSetting(k, v)
    \/ swapConfig
    \/ callLoadConfig

SpecLoad == InitLoad /\ [][NextLoad]_vars

----------------------------------------------------------------------------
(* The view while the host changes the settings                            *)

\* the user changes the options of the view: the host replaces the settings
\* store
settingsChanged(c) ==
    /\ c # config
    /\ config' = c
    /\ UNCHANGED <<lifecycle, data, previewLines, showFileName, stripFrontmatter,
                   monoFont, renderTimeout, resizeTimeout, lastRenderHash, resizeObserver,
                   processedEntries, mount, clientWidth, hostTimers, observing,
                   resizeQueued, passes, peFrom, peFailed, mountFrom, peOrder, lastRender,
                   call>>

NextConfig ==
    \/ onload
    \/ \E d \in DataChoices : onDataUpdatedBounded(d)
    \/ \E c \in ConfigChoices : settingsChanged(c)
    \/ renderTimerFires
    \/ readResolves

SpecConfig == Init /\ [][NextConfig]_vars

----------------------------------------------------------------------------
(* The view loaded in a container 300 wide that is resized afterwards: the  *)
(* only render pass is the one onload starts, at the width 300             *)

InitResize ==
    /\ ViewInit
    /\ data \in InitialData
    /\ config \in ConfigChoices
    /\ clientWidth = 300
    /\ call = NoCall

NextResize ==
    \/ onload
    \/ \E w \in Widths : Resize(w)
    \/ resizeObserverCallback
    \/ resizeTimerFires
    \/ readResolves

SpecResize == InitResize /\ [][NextResize]_vars

----------------------------------------------------------------------------
(* SpreadCards: the rows handed to the virtualizer and what is drawn       *)
(* Row indices are 1-based here, 0-based in the source.                    *)

\* the sum of sizes[1..n]
RECURSIVE SumSizes(_, _)
SumSizes(sizes, n) == IF n = 0 THEN 0 ELSE sizes[n] + SumSizes(sizes, n - 1)

\* virtualizer.getTotalSize(): the extent of all items
getTotalSize(opts) == SumSizes(opts.estimateSize, opts.count)

\* the items that intersect the viewport [offset, offset + size)
ItemsInViewport(opts, offset, size) ==
    {i \in 1..opts.count :
        /\ size > 0
        /\ SumSizes(opts.estimateSize, i - 1) < offset + size
        /\ SumSizes(opts.estimateSize, i) > offset}

\* virtualizer.getVirtualItems(): the items in the viewport and overscan more
\* on either side, each with the offset at which it starts
getVirtualItems(opts, offset, size) ==
    LET inView == ItemsInViewport(opts, offset, size)
    IN  IF inView = {} THEN <<>>
        ELSE LET lo == Max2(1, (CHOOSE i \in inView : \A j \in inView : i <= j)
                                   - opts.overscan)
                 hi == Min2(opts.count, (CHOOSE i \in inView : \A j \in inView : i >= j)
                                            + opts.overscan)
             IN  [k \in 1..(hi - lo + 1) |->
                     [index |-> lo + k - 1,
                      start |-> SumSizes(opts.estimateSize, lo + k - 2)]]

\* the options with an overscan of five rows
virtualizerOptionsWide(rows) ==
    [count |-> Len(rows),
     estimateSize |-> [i \in 1..Len(rows) |-> rows[i].height],
     overscan |-> 5]

\* the options SpreadCards passes to useVirtualizer
virtualizerOptions(rows) ==
    [count |-> Len(rows),
     estimateSize |-> [i \in 1..Len(rows) |-> rows[i].height],
     overscan |-> 3]

\* the translation taken as if every row had the height of the first
translateYUniform(items, rows) ==
    IF Len(items) = 0 THEN 0 ELSE (items[1].index - 1) * rows[1].height

\* translateY(${virtualizer.getVirtualItems()[0]?.start ?? 0}px)
translateY(items, rows) ==
    IF Len(items) = 0 THEN 0 ELSE items[1].start

\* one render of SpreadCards at the scroll position of the scroll element
SpreadCardsRender(c) ==
    LET opts == virtualizerOptions(c.rows)
        items == getVirtualItems(opts, c.scrollTop, c.clientHeight)
    IN  [c EXCEPT !.rendered = TRUE,
                  !.height = getTotalSize(opts),
                  !.translateY = translateY(items, c.rows),
                  !.drawn = [k \in 1..Len(items) |-> items[k].index]]

\* the most rows handed to SpreadCards
MaxRows == 8

\* rows of one card each, as groupIntoRows packs them in a narrow container
RowsOfHeights(hs) == groupIntoRows([i \in 1..Len(hs) |-> mockEntry("fa", hs[i])], 0)

\* the scroll positions of a content of the given height (every 50 pixels)
ScrollPositions(total, viewport) == {o \in 0..Max2(0, total - viewport) : o % 50 = 0}

InitWindow ==
    /\ ViewInit
    /\ data = NoData
    /\ config = NoConfig
    /\ clientWidth = 0
    /\ call \in {[fn |-> "SpreadCards", rows |-> RowsOfHeights(hs), clientHeight |-> v,
                   scrollTop |-> 0, rendered |-> FALSE, height |-> 0, translateY |-> 0,
                   drawn |-> <<>>] :
                      hs \in SeqsUpTo({100, 150}, MaxRows), v \in {0, 120, 400}}

\* render(<SpreadCards rows=... />, mountEl)
mountSpreadCards ==
    /\ call.fn = "SpreadCards"
    /\ ~call.rendered
    /\ call' = SpreadCardsRender(call)
    /\ UNCHANGED viewVars

\* the scroll element is scrolled: the virtualizer has the component render again
onScroll(o) ==
    /\ call.fn = "SpreadCards"
    /\ call.rendered
    /\ o # call.scrollTop
    /\ call' = SpreadCardsRender([call EXCEPT !.scrollTop = o])
    /\ UNCHANGED viewVars

NextWindow ==
    \/ mountSpreadCards
    \/ \E o \in ScrollPositions(call.height, call.clientHeight) : onScroll(o)

SpecWindow == InitWindow /\ [][NextWindow]_vars

----------------------------------------------------------------------------
(* Properties                                                              *)

RECURSIVE FlattenRows(_)
FlattenRows(rows) ==
    IF Len(rows) = 0 THEN <<>> ELSE rows[1].entries \o FlattenRows(Tail(rows))

RECURSIVE SumRowLengths(_)
SumRowLengths(rows) ==
    IF Len(rows) = 0 THEN 0 ELSE Len(rows[1].entries) + SumRowLengths(Tail(rows))

\* the height of a row is the greatest height of its entries
RowHeightIsMax(row) ==
    /\ \E k \in 1..Len(row.entries) : row.entries[k].height = row.height
    /\ \A k \in 1..Len(row.entries) : row.entries[k].height <= row.height

\* C1: groupIntoRows returns rows whose entry lists, concatenated in row
\* order, are the input sequence (so their lengths sum to its length), and
\* the height of every row is the greatest height of its entries.
C1_RowsPartitionEntries ==
    (call.fn = "groupIntoRows" /\ call.done) =>
        /\ FlattenRows(call.result) = call.entries
        /\ SumRowLengths(call.result) = Len(call.entries)
        /\ \A r \in 1..Len(call.result) : RowHeightIsMax(call.result[r])

\* groupIntoRows has packed three entries of different heights into a row of
\* two and a row of one
C1_Witness ==
    /\ call.fn = "groupIntoRows"
    /\ call.done
    /\ Len(call.entries) = 3
    /\ Len(call.result) = 2
    /\ Len(call.result[1].entries) = 2
    /\ call.entries[1].height # call.entries[2].height

\* C8: computeHash returns the empty string for the empty sequence and, for
\* N >= 1 entries, the numeral of N and the paths of the entries at the
\* indices 0, floor(N / 2) and N - 1 joined by "|", the path of an entry
\* without a file being the empty string.
C8_HashFormat ==
    (call.fn = "computeHash" /\ call.done) =>
        LET es == call.entries
            N == Len(es)
            pathOf(i) == IF es[i + 1].file = NULL THEN <<>> ELSE path[es[i + 1].file]
        IN  call.result =
                IF N = 0 THEN <<>>
                ELSE join(<<ToDecimal(N), pathOf(0), pathOf(N \div 2), pathOf(N - 1)>>, "|")

\* computeHash has hashed four entries of which the first has no file and the
\* two interior ones differ
C8_Witness ==
    /\ call.fn = "computeHash"
    /\ call.done
    /\ Len(call.entries) = 4
    /\ call.entries[1].file = NULL
    /\ call.entries[2].file # call.entries[3].file
    /\ Len(call.result) > 4

\* the files of a sequence of entries or processed entries, in order
FilesOf(es) == [i \in 1..Len(es) |-> es[i].file]

\* the files of the entries with a file reference, in input order, counted
\* by index and not by filtering
ValidFilesOf(entries) ==
    LET idx == {i \in 1..Len(entries) : entries[i].file # NULL}
        nth(k) == CHOOSE i \in idx : Cardinality({j \in idx : j <= i}) = k
    IN  [k \in 1..Cardinality(idx) |-> entries[nth(k)].file]

\* ValidFilesOf of every sequence the data source supplies, computed once
ValidFiles == [d \in EntryLists |-> ValidFilesOf(d)]

\* the processed entries the displayed content shows, in display order
Displayed == IF mount.kind = "cards" THEN FlattenRows(mount.rows) ELSE <<>>

\* a call of renderView begins in this step: by onload, or by the callback of
\* the render timer
RenderViewCalled ==
    \/ lifecycle = "new" /\ lifecycle' = "loaded"
    \/ renderTimeout # NULL /\ renderTimeout' = NULL /\ lifecycle' = lifecycle

\* C2: a renderView call that computes the hash stored in lastRenderHash
\* starts no file read and leaves processedEntries, the displayed content and
\* lastRenderHash as they are, also when the entries differ from the ones
\* shown.
C2_SkipWhenHashEqual ==
    [][(RenderViewCalled /\ data.set /\ computeHash(data.data) = lastRenderHash)
        => UNCHANGED <<processedEntries, mount, lastRenderHash, passes>>]_vars

\* the latest renderView call was skipped although the entries (DataB) are
\* not the displayed ones (DataA): both have the same hash
C2_Witness ==
    /\ lifecycle = "loaded"
    /\ lastRender = "skipped"
    /\ renderTimeout = NULL
    /\ data = DataOf(DataB)
    /\ mountFrom = Snapshot(DataA)
    /\ mount.kind = "cards"
    /\ FilesOf(Displayed) = ValidFiles[DataA]
    /\ FilesOf(Displayed) # ValidFiles[DataB]
    /\ passes = EmptyBag

RenderTimers == {t \in hostTimers : t.cb = "render"}

ResizeTimers == {t \in hostTimers : t.cb = "resize"}

\* at most one timer of each kind is armed, and the handle fields name them
OneTimerEach ==
    /\ Cardinality(RenderTimers) <= 1
    /\ Cardinality(ResizeTimers) <= 1
    /\ renderTimeout # NULL <=> RenderTimers # {}
    /\ resizeTimeout # NULL <=> ResizeTimers # {}
    /\ \A t \in RenderTimers : t.id = renderTimeout
    /\ \A t \in ResizeTimers : t.id = resizeTimeout

\* the ResizeObserver callback runs in this step
ResizeTrigger == resizeQueued /\ ~resizeQueued' /\ lifecycle' = lifecycle

\* C3: at most one data-update timer and at most one resize timer is armed;
\* a trigger that arrives while its timer is armed changes nothing of the
\* timers; when a timer fires its handle is cleared and no timer of its kind
\* stays armed, so the burst is answered by one recomputation; a data update
\* that arrives while the handle is clear, a render pass being suspended or
\* not, arms a timer.
C3_Coalescing ==
    /\ []OneTimerEach
    /\ [][(data' # data /\ renderTimeout # NULL)
            => UNCHANGED <<hostTimers, renderTimeout, resizeTimeout>>]_vars
    /\ [][(ResizeTrigger /\ resizeTimeout # NULL)
            => UNCHANGED <<hostTimers, renderTimeout, resizeTimeout>>]_vars
    /\ [][(renderTimeout # NULL /\ renderTimeout' = NULL)
            => \A t \in hostTimers' : t.cb # "render"]_vars
    /\ [][(resizeTimeout # NULL /\ resizeTimeout' = NULL)
            => \A t \in hostTimers' : t.cb # "resize"]_vars
    /\ [][(data' # data /\ renderTimeout = NULL) => renderTimeout' # NULL]_vars

\* a data update has armed the render timer while a render pass is suspended
\* at its reads, and the resize timer is armed as well
C3_Witness ==
    /\ passes # EmptyBag
    /\ renderTimeout # NULL
    /\ resizeTimeout # NULL
    /\ Cardinality(hostTimers) = 2

\* the preview getPreview returns for a file whose read, if any, resolves
PreviewOf(f) ==
    IF f = "fb" THEN <<"[", "p", "n", "g", " ", "f", "i", "l", "e", "]">>
    ELSE ContentPreview[f][stripFrontmatter][previewLines]

\* C4: the processed entries are, one for one and in input order, the
\* entries with a file reference of the sequence the pass read, each with the
\* preview of its own file, whatever the order in which the reads settled.
C4_OrderPreserved ==
    /\ FilesOf(processedEntries) = ValidFiles[peFrom.entries]
    /\ Len(processedEntries) <= Len(peFrom.entries)
    /\ \A i \in 1..Len(processedEntries) :
           processedEntries[i].preview = PreviewOf(processedEntries[i].file)

\* a pass over DataA, which has an entry without a file, has completed after
\* the read of c.txt (index 3) settled before the read of a.md (index 2)
C4_Witness ==
    /\ peFrom = Snapshot(DataA)
    /\ peOrder = <<3, 2>>
    /\ Len(processedEntries) = 3

\* C5: processedEntries and the displayed rows are each made from the entry
\* sequence one pass read at its start: their files are exactly the valid
\* files of one sequence the data source supplied, never a mixture of two.
C5_OneSnapshot ==
    /\ \E d \in EntryLists : FilesOf(processedEntries) = ValidFiles[d]
    /\ \E d \in EntryLists : FilesOf(Displayed) = ValidFiles[d]
    /\ FilesOf(processedEntries) = ValidFiles[peFrom.entries]
    /\ FilesOf(Displayed) = ValidFiles[mountFrom.entries]

\* the pass over DataB, started while a pass over DataA was suspended, has
\* completed, and the pass over DataA completed after it
C5_Witness ==
    /\ lifecycle = "loaded"
    /\ renderTimeout = NULL
    /\ lastRender = "ran"
    /\ data = DataOf(DataB)
    /\ passes = EmptyBag
    /\ peFrom = Snapshot(DataA)
    /\ FilesOf(Displayed) = ValidFiles[DataA]

\* C6: once onunload has run no timer is armed, both handles are clear and
\* the ResizeObserver is disconnected with no notification to deliver; no
\* step of an unloaded view arms a timer or runs a timer or resize callback.
C6_UnloadReleases ==
    /\ [](lifecycle = "unloaded" =>
            /\ hostTimers = {}
            /\ renderTimeout = NULL
            /\ resizeTimeout = NULL
            /\ resizeObserver = NULL
            /\ ~observing
            /\ ~resizeQueued)
    /\ [][lifecycle = "unloaded" =>
            UNCHANGED <<hostTimers, renderTimeout, resizeTimeout, resizeQueued,
                        observing>>]_vars

\* a pass that was suspended when onunload ran has completed afterwards and
\* stored its entries, with which a resize callback would arm a timer
C6_Witness ==
    /\ lifecycle = "unloaded"
    /\ Len(processedEntries) > 0
    /\ passes = EmptyBag

\* C7: when the latest renderView call has run on an empty entry sequence
\* and nothing is pending, the empty-state placeholder is displayed.
C7_EmptyShowsPlaceholder ==
    (/\ lifecycle = "loaded"
     /\ lastRender \in {"skipped", "ran"}
     /\ data = DataOf(DataEmpty)
     /\ renderTimeout = NULL
     /\ resizeTimeout = NULL
     /\ passes = EmptyBag) => mount = EmptyState

\* the preview of the i-th processed entry, had no read failed
PreviewWithoutFailure(i) == PreviewOf(processedEntries[i].file)

\* the processed entries whose preview was read from the vault
ReadIndices == {i \in 1..Len(processedEntries) : processedEntries[i].file # "fb"}

\* C9: a pass completes when its last read has settled, rejected or not; the
\* entries whose read failed carry "[unable to read]", every other entry
\* the preview it has when no read fails, and number and order of the
\* processed entries are those of the valid entries.
C9_ReadFailureRecovered ==
    /\ \A p \in BagToSet(passes) : \E i \in 1..Len(p.results) : ~p.results[i].settled
    /\ FilesOf(processedEntries) = ValidFiles[peFrom.entries]
    /\ peFailed \subseteq ReadIndices
    /\ \A i \in 1..Len(processedEntries) :
           processedEntries[i].preview =
               IF i \in peFailed
               THEN <<"[", "u", "n", "a", "b", "l", "e", " ", "t", "o", " ", "r", "e", "a",
                      "d", "]">>
               ELSE PreviewWithoutFailure(i)

\* a pass over DataA has completed in which the read of a.md failed and the
\* read of c.txt succeeded
C9_Witness ==
    /\ peFrom = Snapshot(DataA)
    /\ peFailed = {2}
    /\ Len(processedEntries) = 3
    /\ processedEntries[3].preview = PreviewOf("fc")

\* the file has an extension of the binary set, whatever its case
IsBinary(f) == \E e \in BINARY_EXTENSIONS :
    /\ Len(e) = Len(extension[f])
    /\ \A k \in 1..Len(e) : LowerChar(extension[f][k]) = e[k]

\* the files of the vault with a binary extension
BinaryFiles == {f \in Files : IsBinary(f)}

\* the indices of the valid entries whose file is binary, for every sequence
\* the data source supplies
BinaryIndices == [d \in EntryLists |->
    {i \in 1..Len(ValidFiles[d]) : ValidFiles[d][i] \in BinaryFiles}]

\* C10: no read is ever awaited or settled for a file with a binary
\* extension in any case (b.PNG): in every suspended pass its preview is
\* already "[png file]", and so it is in the processed entries.
C10_BinaryNeverRead ==
    /\ BinaryFiles = {"fb"}
    /\ \A p \in BagToSet(passes) : \A i \in BinaryIndices[p.entries] :
           /\ p.results[i].settled
           /\ p.results[i].preview = <<"[", "p", "n", "g", " ", "f", "i", "l", "e", "]">>
           /\ \A k \in 1..Len(p.order) : p.order[k] # i
    /\ \A k \in 1..Len(peOrder) : peOrder[k] \notin BinaryIndices[peFrom.entries]
    /\ \A i \in 1..Len(processedEntries) :
           processedEntries[i].file \in BinaryFiles =>
               processedEntries[i].preview =
                   <<"[", "p", "n", "g", " ", "f", "i", "l", "e", "]">>

\* a pass over DataA is suspended at the reads of a.md and c.txt while the
\* preview of b.PNG is already there
C10_Witness ==
    \E p \in BagToSet(passes) :
        /\ p.entries = DataA
        /\ p.results[1].settled
        /\ ~p.results[2].settled
        /\ ~p.results[3].settled

\* C11: while the view stays attached and armed timers fire, a data update
\* always leaves the render timer armed, also with a timer pending or a pass
\* suspended; an armed render timer leads to its firing; and the firing
\* calls renderView, which reads the entries as they are at that moment.
C11_TrailingRender ==
    /\ [][data' # data => renderTimeout' # NULL]_vars
    /\ (renderTimeout # NULL) ~> (renderTimeout = NULL)
    /\ [][(renderTimeout # NULL /\ renderTimeout' = NULL) =>
            /\ data' = data
            /\ lastRender' \in {"skipped", "ran"}
            /\ lastRenderHash' = computeHash(data'.data)]_vars

\* a data update that arrived while a pass was suspended has been answered:
\* its timer has fired and started a second pass beside the first
C11_Witness ==
    /\ lifecycle = "loaded"
    /\ BagCardinality(passes) = 2
    /\ renderTimeout = NULL
    /\ lastRender = "ran"

\* the indices of the valid entries of a suspended pass whose read is awaited
Awaited(p) == {i \in 1..Len(p.results) : ~p.results[i].settled}

\* C12: a pass that has consumed no completion yet awaits the reads of all
\* its valid non-binary entries at once, and while two or more reads are
\* awaited each of them can complete next: none waits for another.
C12_ReadsIssuedTogether ==
    \A p \in BagToSet(passes) :
        /\ (p.order = <<>>) =>
               Awaited(p) = (1..Len(p.results)) \ BinaryIndices[p.entries]
        /\ Cardinality(Awaited(p)) >= 2 =>
               \A i \in Awaited(p) : ENABLED readSettles(p, i, TRUE)

\* in a pass over DataA the read of c.txt has completed while the read of
\* a.md, the entry before it, is still awaited
C12_Witness ==
    \E p \in BagToSet(passes) :
        /\ p.entries = DataA
        /\ p.order = <<3>>
        /\ ~p.results[2].settled

\* C13: with perRow = max(1, floor((width + 12) / (250 + 12))), groupIntoRows
\* returns ceil(N / perRow) rows, every row but the last holds perRow entries,
\* the last row holds between 1 and perRow entries, the empty input gives no
\* row at any width, and at a width below 250 every row holds one entry.
C13_RowCapacity ==
    (call.fn = "groupIntoRows" /\ call.done) =>
        LET N == Len(call.entries)
            rows == call.result
            q == (call.width + 12) \div (250 + 12)
            perRow == IF q >= 1 THEN q ELSE 1
        IN  /\ Len(rows) = (N + perRow - 1) \div perRow
            /\ \A r \in 1..(Len(rows) - 1) : Len(rows[r].entries) = perRow
            /\ Len(rows) > 0 => Len(rows[Len(rows)].entries) \in 1..perRow
            /\ N = 0 => rows = <<>>
            /\ call.width < 250 =>
                   /\ perRow = 1
                   /\ \A r \in 1..Len(rows) : Len(rows[r].entries) = 1

\* three entries at the width 512, where two cards and the gap between them
\* fit, were packed into a full row and a last row of one
C13_Witness ==
    /\ call.fn = "groupIntoRows"
    /\ call.done
    /\ call.width = 512
    /\ Len(call.entries) = 3
    /\ Len(call.result) = 2
    /\ Len(call.result[2].entries) = 1

\* the content of a file as getPreview sees it after stripping
StrippedContent(file, content, stripFm) ==
    LET ext == toLowerCase(extension[file])
        c1 == IF stripFm THEN FRONTMATTER_REGEX(content) ELSE content
    IN  IF ext = <<"m", "d">> \/ ext = <<"m", "a", "r", "k", "d", "o", "w", "n">>
        THEN stripMarkdown(c1) ELSE c1

NotEmptyLine(l) == Len(l) > 0

\* the non-empty trimmed lines of a text, in order
NonEmptyTrimmedLines(text) ==
    LET ls == split(text, NL)
    IN  SelectSeq([i \in 1..Len(ls) |-> trim(ls[i])], NotEmptyLine)

\* the lines a finished getPreview call is to show
LinesOfCall == NonEmptyTrimmedLines(StrippedContent(call.file, call.content, call.stripFm))

\* the preview of a finished getPreview call is bounded: with k non-empty
\* trimmed lines it is the sentinel when k = 0 and otherwise the first
\* min(k, previewLines) of them joined by newline, none empty
PreviewBounded ==
    LET L == LinesOfCall
        k == Len(L)
        m == IF k <= call.maxLines THEN k ELSE call.maxLines
        shown == split(call.result, NL)
    IN  /\ k = 0 => call.result = EmptyPreview
        /\ k > 0 =>
               /\ call.result = join(SubSeq(L, 1, m), NL)
               /\ Len(shown) = m
               /\ \A i \in 1..Len(shown) : shown[i] # <<>> /\ shown[i] = L[i]
        /\ Len(shown) <= call.maxLines

\* C14 as stated: the preview of a successfully read non-binary file is the
\* first min(k, previewLines) non-empty trimmed lines of the stripped content
\* joined by newline, never with an empty line or more than previewLines
\* lines, and it is the sentinel "[empty]" exactly when k = 0.
C14_SentinelExactlyWhenEmpty ==
    (call.fn = "getPreview" /\ call.done) =>
        /\ PreviewBounded
        /\ (call.result = EmptyPreview) <=> (Len(LinesOfCall) = 0)

\* C14 amended: the preview is the sentinel "[empty]" whenever k = 0, and
\* otherwise the first min(k, previewLines) non-empty trimmed lines of the
\* stripped content joined by newline, never with an empty line or more than
\* previewLines lines (a file whose only line is the text of the sentinel has
\* k = 1 and the same preview).
C14_PreviewBounded ==
    (call.fn = "getPreview" /\ call.done) => PreviewBounded

\* getPreview has cut a content with an empty line and more non-empty lines
\* than previewLines
C14_Witness ==
    /\ call.fn = "getPreview"
    /\ call.done
    /\ Len(LinesOfCall) > call.maxLines
    /\ Len(split(call.content, NL)) > Len(LinesOfCall)
    /\ call.result # EmptyPreview

TypeOfKey(k) == IF k = "previewLines" THEN "number" ELSE "boolean"

\* C16: after loadConfig, each of the four fields has the value it had before
\* when there is no settings store or the store returns an absent or
\* wrong-typed value for its key, and otherwise has the value of its own key
\* (previewLines brought into 1..20, NaN kept), whatever the other keys hold;
\* and loadConfig can always be called.
C16_LoadConfigFrame ==
    /\ ENABLED callLoadConfig
    /\ call.fn = "loadConfig" =>
           \A k \in ConfigKeys :
               LET value == call.store.get[k]
               IN  IF call.store.set /\ value.t = TypeOfKey(k)
                   THEN Fields[k] = IF k # "previewLines" THEN value.v
                                     ELSE IF value.v = NaN THEN NaN
                                     ELSE IF value.v > 20 THEN 20
                                     ELSE IF value.v < 1 THEN 1 ELSE value.v
                   ELSE Fields[k] = call.before[k]

\* loadConfig has kept a previewLines of 7 against a boolean stored under its
\* key while it took monoFont from the store, which has a number under
\* showFileName
C16_Witness ==
    /\ call.fn = "loadConfig"
    /\ call.store.get["previewLines"] = Bool(TRUE)
    /\ call.before.previewLines = 7
    /\ previewLines = 7
    /\ call.store.get["showFileName"] = Num(7)
    /\ call.store.get["monoFont"] = Bool(TRUE)
    /\ ~call.before.monoFont
    /\ monoFont

\* the sum of the heights of rows[from..to]
RECURSIVE HeightOfRows(_, _, _)
HeightOfRows(rows, from, to) ==
    IF from > to THEN 0 ELSE rows[from].height + HeightOfRows(rows, from + 1, to)

\* the rows of the rendered component that intersect its viewport
RowsInView ==
    {i \in 1..Len(call.rows) :
        /\ call.clientHeight > 0
        /\ HeightOfRows(call.rows, 1, i - 1) < call.scrollTop + call.clientHeight
        /\ HeightOfRows(call.rows, 1, i) > call.scrollTop}

\* C17: at every scroll position the translation of the drawn rows is the sum
\* of the heights of the rows before the first drawn row (0 when no row is
\* drawn), and the height of the content is the sum of the heights of all
\* rows, whichever rows are drawn.
C17_WindowPositioning ==
    (call.fn = "SpreadCards" /\ call.rendered) =>
        /\ call.translateY = IF call.drawn = <<>> THEN 0
                             ELSE HeightOfRows(call.rows, 1, call.drawn[1] - 1)
        /\ call.height = HeightOfRows(call.rows, 1, Len(call.rows))

\* scrolled down rows of different heights, the first drawn row is the third
\* and the drawn rows are moved down by the heights of the two before it
C17_Witness ==
    /\ call.fn = "SpreadCards"
    /\ call.rendered
    /\ call.scrollTop > 0
    /\ call.drawn # <<>>
    /\ call.drawn[1] = 3
    /\ call.rows[1].height # call.rows[2].height
    /\ call.translateY = 250

\* C18: at every scroll position the drawn rows are a contiguous range of
\* indices that contains every row intersecting the viewport and reaches at
\* most 3 rows before the first and after the last of them, so at most 6
\* more rows are drawn than intersect the viewport.
C18_WindowMaterialization ==
    (call.fn = "SpreadCards" /\ call.rendered) =>
        LET drawn == call.drawn
            D == {drawn[k] : k \in 1..Len(drawn)}
        IN  /\ \A k \in 1..(Len(drawn) - 1) : drawn[k + 1] = drawn[k] + 1
            /\ RowsInView \subseteq D
            /\ \A d \in D : \E i \in RowsInView : d >= i - 3 /\ d <= i + 3
            /\ Len(drawn) <= Cardinality(RowsInView) + 6

\* of eight rows only the first five are drawn: two in the viewport and three
\* after them
C18_Witness ==
    /\ call.fn = "SpreadCards"
    /\ call.rendered
    /\ Len(call.rows) = 8
    /\ Cardinality(RowsInView) = 2
    /\ call.drawn = <<1, 2, 3, 4, 5>>

\* C19: stripMarkdown turns the image syntax ![alt](target), with non-empty
\* alt and target, into the empty string, and the link syntax [text](target)
\* into text.
C19_ImagesRemoved ==
    (call.fn = "stripMarkdown" /\ call.done) =>
        call.result = IF call.kind = "image" THEN <<>> ELSE call.text

\* the preview of a file whose read succeeds, under the configuration c
PreviewUnder(f, c) ==
    IF f = "fb" THEN <<"[", "p", "n", "g", " ", "f", "i", "l", "e", "]">>
    ELSE ContentPreview[f][c.stripFrontmatter][c.previewLines]

\* the entries a pass over es is to store under the configuration c
ProcessedUnder(es, c) ==
    LET valid == validEntries(es)
    IN  [i \in 1..Len(valid) |->
            LET preview == PreviewUnder(valid[i].file, c)
                lineCount == Len(split(preview, NL))
            IN  [file |-> valid[i].file, preview |-> preview, lineCount |-> lineCount,
                 height |-> (IF c.showFileName THEN 39 ELSE 0) + 24
                            + (IF lineCount <= c.previewLines THEN lineCount
                               ELSE c.previewLines) * 20 + 2]]

\* C20: every preview a suspended pass has received is the preview under the
\* configuration the pass started with, and when the pass completes, the
\* entries it stores (previews, line counts, heights) and the showFileName
\* and monoFont flags of what it displays are those of that configuration,
\* whatever onDataUpdated has reloaded in between.
C20_ConfigSnapshot ==
    /\ [](\A p \in BagToSet(passes) : \A i \in 1..Len(p.results) :
              p.results[i].settled =>
                  p.results[i].preview =
                      PreviewUnder(validEntries(p.entries)[i].file, p.startConfig))
    /\ [][\A p \in BagToSet(passes) :
              (Cardinality(Awaited(p)) = 1 /\ passes' = passes (-) SetToBag({p})) =>
                  /\ processedEntries' = ProcessedUnder(p.entries, p.startConfig)
                  /\ mount'.kind = "cards"
                  /\ mount'.showFileName = p.startConfig.showFileName
                  /\ mount'.monoFont = p.startConfig.monoFont]_vars

\* the pass p completes in this step: its last awaited read settles
PassCompletes(p) == Cardinality(Awaited(p)) = 1 /\ passes' = passes (-) SetToBag({p})

\* C21: the rows a render pass displays are packed at the width the container
\* had when the pass started, here 300, also when the container was resized
\* while the pass was suspended; and a resize removes no suspended pass.
C21_WidthAtPassStart ==
    /\ [][\A p \in BagToSet(passes) :
              PassCompletes(p) =>
                  /\ mount'.kind = "cards"
                  /\ mount'.rows = groupIntoRows(processedEntries', 300)]_vars
    /\ [][clientWidth' # clientWidth => passes' = passes]_vars

\* the callback of the resize timer runs in this step
ResizeTimerRuns == resizeTimeout # NULL /\ resizeTimeout' = NULL /\ lifecycle' = lifecycle

\* C22: while the empty-state placeholder is displayed, the recomputation
\* that answers a resize of the container leaves the placeholder displayed:
\* it never puts cards of an earlier snapshot in its place.
C22_EmptyStableUnderResize ==
    [][(mount.kind = "empty" /\ ResizeTimerRuns) => mount'.kind = "empty"]_vars

\* C23: whenever the view is attached, no timer is armed and no render pass
\* is suspended, lastRenderHash is the hash of the entry sequence from which
\* what is displayed (rows or placeholder) was produced.
C23_QuiescentFingerprint ==
    (/\ lifecycle = "loaded"
     /\ hostTimers = {}
     /\ renderTimeout = NULL
     /\ resizeTimeout = NULL
     /\ passes = EmptyBag) => lastRenderHash = computeHash(mountFrom.entries)

\* C24: once onunload has returned, nothing is displayed in the mount and
\* processedEntries is empty, also after a render pass that was suspended at
\* its reads when onunload ran has completed.
C24_DetachIsFinal ==
    lifecycle = "unloaded" => (mount = NoContent /\ processedEntries = <<>>)

\* C25: when the render scheduled by onDataUpdated has run to its end and
\* cards are displayed, they are computed with the configuration loadConfig
\* has loaded from the settings store: the flags showFileName and monoFont
\* and the previews, line counts and heights of the displayed entries are
\* those of the current fields, also when the entry sequence is the one
\* rendered before and only the settings have changed.
C25_ConfigTakesEffect ==
    [][(/\ renderTimeout # NULL
        /\ renderTimeout' = NULL
        /\ lifecycle' = lifecycle
        /\ passes = EmptyBag
        /\ passes' = EmptyBag
        /\ mount'.kind = "cards") =>
            /\ mount'.showFileName = showFileName'
            /\ mount'.monoFont = monoFont'
            /\ Displayed' = ProcessedUnder(mountFrom'.entries, Fields')]_vars

C27_PreviewLinesInRange ==
    /\ previewLines \in 1..20
    /\ (/\ call.fn = "loadConfig"
        /\ call.store.set
        /\ call.store.get["previewLines"].t = "number"
        /\ call.store.get["previewLines"].v # NaN) =>
            LET lines == call.store.get["previewLines"].v
            IN  /\ lines < 1 => previewLines = 1
                /\ lines > 20 => previewLines = 20

\* the same without the number NaN: every loadConfig that found a number
\* other than NaN under previewLines has left the number brought into 1..20
\* in the field, and the field never holds a number out of 1..20 other than
\* NaN
C27_ClampedUnlessNaN ==
    /\ previewLines \in (1..20) \cup {NaN}
    /\ (/\ call.fn = "loadConfig"
        /\ call.store.set
        /\ call.store.get["previewLines"].t = "number"
        /\ call.store.get["previewLines"].v # NaN) =>
            LET lines == call.store.get["previewLines"].v
            IN  /\ previewLines \in 1..20
                /\ lines < 1 => previewLines = 1
                /\ lines > 20 => previewLines = 20

====
